---------------------------- MODULE Spec2Model ----------------------------
(***************************************************************************)
(* GLV scalar multiplication on the Bandersnatch curve                     *)
(* (src/src/curves/glv.rs): the endomorphism, the scalar decomposition,    *)
(* the joint double-and-add of multi_scalar_mul with its sign              *)
(* normalisation, get_bits, and the driver glv_mul.                        *)
(*                                                                         *)
(* Scalars and coordinates are modelled at their real size, with the       *)
(* constants of the source.  The loops of the source (get_bits, the joint  *)
(* loop) are stepped one iteration an action; endomorphism and             *)
(* scalar_decomposition, which are straight-line code, are operators.      *)
(***************************************************************************)
EXTENDS Integers, Sequences, FiniteSets, TLC

\* ---------------------------------------------------------------------------
\* Naturals of any size (num_bigint::BigUint and ark_ff::BigInteger256
\* values).  A natural is the little-endian sequence of its base-BASE limbs
\* without leading zero limbs; zero is <<>>.  Every machine-size intermediate
\* value stays below 2^31: a column of a product sums at most 21 products of
\* two limbs.
\* ---------------------------------------------------------------------------
BASE == 10^4

Max2(a, b) == IF a >= b THEN a ELSE b
Min2(a, b) == IF a <= b THEN a ELSE b
Limb(a, i) == IF i >= 1 /\ i <= Len(a) THEN a[i] ELSE 0

RECURSIVE Trim(_)
Trim(a) ==
  IF Len(a) = 0 THEN <<>>
  ELSE IF a[Len(a)] = 0 THEN Trim(SubSeq(a, 1, Len(a) - 1)) ELSE a

\* Carrying through the columns lo..hi with the carry c coming in:
\* <<the limbs, the carry going out>>, by halves to keep the evaluation shallow.
RECURSIVE CarryRange(_, _, _, _)
CarryRange(cols, lo, hi, c) ==
  IF lo > hi THEN <<<<>>, c>>
  ELSE IF lo = hi THEN LET v == cols[lo] + c IN <<<<v % BASE>>, v \div BASE>>
  ELSE LET mid == (lo + hi) \div 2
           l == CarryRange(cols, lo, mid, c)
           h == CarryRange(cols, mid + 1, hi, l[2])
       IN <<l[1] \o h[1], h[2]>>
\* the natural whose limbs, before carrying, are the column values cols
CarryOut(r) == Trim(IF r[2] = 0 THEN r[1] ELSE Append(r[1], r[2]))
CarryCols(cs) == CarryOut(CarryRange(cs, 1, Len(cs), 0))
Carry(cols) == CarryCols(cols \o <<>>)

\* a decimal literal, most significant group first, four digits a group
Num(groups) == [i \in 1..Len(groups) |-> groups[Len(groups) + 1 - i]] \o <<>>

\* TLC evaluates the operands of a defined operator when they are first read,
\* inside the operator; Evaluated(a) reads a first, which keeps the
\* evaluation of nested expressions shallow.
Evaluated(a) == Len(a) >= 0

Zero == <<>>
One == <<1>>

AddN(a, b) == Carry([i \in 1..Max2(Len(a), Len(b)) |-> Limb(a, i) + Limb(b, i)])
\* a - b, for a >= b
SubN(a, b) == Carry([i \in 1..Max2(Len(a), Len(b)) |-> Limb(a, i) - Limb(b, i)])

RECURSIVE ColSum(_, _, _, _, _)
ColSum(a, b, k, lo, hi) ==
  IF lo > hi THEN 0
  ELSE IF lo = hi THEN a[lo] * b[k + 1 - lo]
  ELSE LET mid == (lo + hi) \div 2
       IN ColSum(a, b, k, lo, mid) + ColSum(a, b, k, mid + 1, hi)
MulN(a, b) ==
  IF Len(a) = 0 \/ Len(b) = 0 THEN <<>>
  ELSE Carry([k \in 1..(Len(a) + Len(b) - 1) |->
                ColSum(a, b, k, Max2(1, k + 1 - Len(b)), Min2(Len(a), k))])

RECURSIVE LessFrom(_, _, _)
LessFrom(a, b, i) ==
  IF i = 0 THEN FALSE
  ELSE IF a[i] # b[i] THEN a[i] < b[i] ELSE LessFrom(a, b, i - 1)
LessN(a, b) == IF Len(a) # Len(b) THEN Len(a) < Len(b) ELSE LessFrom(a, b, Len(a))

\* Dividing the limbs hi down to lo of a by the machine-size d (d * BASE < 2^31)
\* with the remainder rem coming in: <<the quotient's limbs, the remainder>>
RECURSIVE DivSmallRange(_, _, _, _, _)
DivSmallRange(a, d, lo, hi, rem) ==
  IF lo > hi THEN <<<<>>, rem>>
  ELSE IF lo = hi THEN LET t == rem * BASE + a[lo] IN <<<<t \div d>>, t % d>>
  ELSE LET mid == (lo + hi) \div 2
           h == DivSmallRange(a, d, mid + 1, hi, rem)
       IN IF h[2] >= 0
          THEN LET l == DivSmallRange(a, d, lo, mid, h[2])
               IN <<l[1] \o h[1], l[2]>>
          ELSE <<>>
\* <<a \div d, a % d>>
DivSmallOut(qr) == <<Trim(qr[1]), qr[2]>>
DivSmall(a, d) == DivSmallOut(DivSmallRange(a, d, 1, Len(a), 0))

\* a \div BASE^n
ShiftR(a, n) == IF n >= Len(a) THEN <<>> ELSE SubSeq(a, n + 1, Len(a))

\* <<a \div m, a % m>>, exact floor division of a < BASE^(2 * Len(m)) by m,
\* with mu = BASE^(2 * Len(m)) \div m (Barrett): the estimate qh of the
\* quotient is never too large and at most 2 too small, and the remainder
\* r0 = a - qh * m settles it.
RECURSIVE DivModSettle(_, _, _)
DivModSettle(qh, r0, m) ==
  IF Evaluated(qh) /\ Evaluated(r0)
  THEN IF LessN(r0, m) THEN <<qh, r0>>
       ELSE DivModSettle(AddN(qh, One), SubN(r0, m), m)
  ELSE <<>>
DivModEstimate(a, m, qh) ==
  IF Evaluated(qh) THEN DivModSettle(qh, SubN(a, MulN(qh, m)), m) ELSE <<>>
DivMod(a, m, mu) ==
  IF Evaluated(a) /\ Evaluated(m) /\ Evaluated(mu)
  THEN DivModEstimate(a, m, ShiftR(MulN(ShiftR(a, Len(m) - 1), mu), Len(m) + 1))
  ELSE <<>>

\* the width of a BigInteger256, and of the bit sequences get_bits scans
BitWidth == 256

\* the BitWidth bits of a natural below 2^BitWidth, least significant first
\* (BigInteger256::to_bits_le), taken sixteen bits a chunk
RECURSIVE Chunks(_, _)
ChunksFrom(qr, n) ==
  IF Evaluated(qr) THEN <<qr[2]>> \o Chunks(qr[1], n - 1) ELSE <<>>
Chunks(a, n) == IF n = 0 THEN <<>> ELSE ChunksFrom(DivSmall(a, 2^16), n)
ToBitsLE(a) ==
  LET cs == Chunks(a, BitWidth \div 16)
  IN [i \in 1..BitWidth |->
        (cs[((i - 1) \div 16) + 1] \div 2^((i - 1) % 16)) % 2 = 1] \o <<>>

\* ---------------------------------------------------------------------------
\* The scalar field Fr (integers modulo the group order r) and the base
\* field Fq.  A field element is its canonical representative, a natural
\* below the modulus.
\* ---------------------------------------------------------------------------
\* FrParameters::MODULUS, the order r of the prime-order subgroup
FR_MODULUS ==
  Num(<<1, 3108, 9687, 9378, 1547, 6198, 6193, 5127, 0464, 9145,
        9309, 1558, 9344, 0570, 2517, 8640, 3306, 7296, 8767, 2801>>)
\* BASE^40 \div FR_MODULUS
FR_MU ==
  Num(<<7628, 3650, 9668, 3777, 6814, 3253, 0123, 0720, 4693, 4347,
        6064, 2552, 4380, 1144, 2835, 3873, 1386, 1459, 1544, 8919,
        2167>>)
\* FqParameters::MODULUS, the prime of the coordinate field
FQ_MODULUS ==
  Num(<<5, 2435, 8751, 7512, 6190, 4794, 4774, 0508, 1859, 6583,
        7690, 5525, 0052, 7637, 8226, 0365, 8699, 9385, 8118, 4513>>)
\* BASE^40 \div FQ_MODULUS
FQ_MU ==
  Num(<<1907, 0912, 7417, 0944, 4203, 5813, 2530, 7680, 1173, 3570,
        3922, 2435, 1391, 7297, 9698, 2439, 0716, 1905, 3807, 1675,
        3238>>)

\* field operations modulo m, on canonical representatives
ModReduceOnce(s, m) == IF LessN(s, m) THEN s ELSE SubN(s, m)
ModAdd(a, b, m) ==
  IF Evaluated(a) /\ Evaluated(b) THEN ModReduceOnce(AddN(a, b), m) ELSE Zero
ModSub(a, b, m) ==
  IF Evaluated(a) /\ Evaluated(b)
  THEN IF LessN(a, b) THEN SubN(AddN(a, m), b) ELSE SubN(a, b)
  ELSE Zero
ModNeg(a, m) == IF Len(a) = 0 THEN Zero ELSE SubN(m, a)
ModMul(a, b, m, mu) ==
  IF Evaluated(a) /\ Evaluated(b)
  THEN DivMod(MulN(a, b), m, mu)[2]
  ELSE Zero

FrAdd(a, b) == ModAdd(a, b, FR_MODULUS)
FrSub(a, b) == ModSub(a, b, FR_MODULUS)
FrNeg(a) == ModNeg(a, FR_MODULUS)
FrMul(a, b) == ModMul(a, b, FR_MODULUS, FR_MU)
\* Fr::from(BigUint): reduction modulo r
FrFrom(n) == DivMod(n, FR_MODULUS, FR_MU)[2]
\* the order of Fr elements is the order of their representatives
FrGreater(a, b) == LessN(b, a)
\* a negative literal of field_new!(Fr, "-v") is r - v
FrNegLiteral(v) == FrNeg(v)

FqAdd(a, b) == ModAdd(a, b, FQ_MODULUS)
FqSub(a, b) == ModSub(a, b, FQ_MODULUS)
FqNeg(a) == ModNeg(a, FQ_MODULUS)
FqMul(a, b) == ModMul(a, b, FQ_MODULUS, FQ_MU)
FqSquare(a) == FqMul(a, a)

RECURSIVE FqPowRange(_, _, _, _, _)
\* acc^(2^(hi - lo + 1)) * a^e for the exponent e of bits hi down to lo
FqPowBit(sq, a, bit) == IF bit /\ Evaluated(sq) THEN FqMul(sq, a) ELSE sq
FqPowRange(a, bits, acc, hi, lo) ==
  IF hi = lo THEN FqPowBit(FqSquare(acc), a, bits[hi])
  ELSE LET mid == (hi + lo) \div 2
           h == FqPowRange(a, bits, acc, hi, mid + 1)
       IN IF Evaluated(h) THEN FqPowRange(a, bits, h, mid, lo) ELSE Zero
\* a^e in Fq by square-and-multiply
FqPowBits(a, bits) ==
  IF Evaluated(bits) /\ Evaluated(a)
  THEN FqPowRange(a, bits, One, Len(bits), 1)
  ELSE Zero
FqPow(a, e) == FqPowBits(a, ToBitsLE(e))
\* Field::inverse of a nonzero element, a^(q - 2)
FqInverse(a) == FqPow(a, SubN(FQ_MODULUS, <<2>>))

\* ---------------------------------------------------------------------------
\* The curve group: the twisted Edwards curve a*x^2 + y^2 = 1 + d*x^2*y^2
\* over Fq (EdwardsParameters), affine points [x, y] and extended projective
\* points [x, y, t, z] with the group operations of ark_ec.
\* ---------------------------------------------------------------------------
\* TEModelParameters::COEFF_A = -5 and COEFF_D
COEFF_A == FqNeg(<<5>>)
COEFF_D ==
  Num(<<4, 5022, 3631, 2459, 1815, 6725, 0950, 0913, 6868, 7617,
        5488, 0638, 2931, 9466, 9007, 7670, 1791, 0746, 1433, 5719>>)
\* the generator of the prime-order subgroup (AFFINE_GENERATOR_COEFFS)
GENERATOR ==
  [x |-> Num(<<1, 8886, 1788, 6720, 0960, 4970, 0183, 5917, 6490, 9121,
               9057, 0800, 9493, 7609, 5191, 4044, 0539, 7609, 3993, 7304>>),
   y |-> Num(<<1, 9188, 6673, 8425, 7783, 9456, 7764, 2223, 2926, 9777,
               3471, 3354, 3975, 3913, 2315, 0910, 8946, 8780, 8069, 6678>>)]

Affine(x, y) == [x |-> x, y |-> y]
\* GroupProjective::new(x, y, t, z)
Projective(x, y, t, z) == [x |-> x, y |-> y, t |-> t, z |-> z]
AffineZero == Affine(Zero, One)

\* A generic point u*P + v*Q of a group of exponent r, P and Q being two points
\* nothing is assumed of: the group operations act on the coefficients.  It
\* stands for the points of any call multi_scalar_mul(P, k1, Q, k2).
Generic(u, v) == [u |-> u, v |-> v]
IsGeneric(p) == "u" \in DOMAIN p
GenericP == Generic(One, Zero)
GenericQ == Generic(Zero, One)

\* a*x^2 + y^2 = 1 + d*x^2*y^2
IsOnCurveSquares(x2, y2) ==
  FqAdd(FqMul(COEFF_A, x2), y2) = FqAdd(One, FqMul(COEFF_D, FqMul(x2, y2)))
IsOnCurve(p) == IsOnCurveSquares(FqSquare(p.x), FqSquare(p.y))

\* EdwardsProjective::zero(), in the representation of the point p
ProjectiveZero(p) ==
  IF IsGeneric(p) THEN Generic(Zero, Zero) ELSE Projective(Zero, One, Zero, One)
\* AffineCurve::into_projective
IntoProjective(p) ==
  IF IsGeneric(p) THEN p ELSE Projective(p.x, p.y, FqMul(p.x, p.y), One)
\* GroupProjective::is_zero
IsZero(p) ==
  IF IsGeneric(p) THEN p.u = Zero /\ p.v = Zero
  ELSE p.x = Zero /\ p.y = p.z /\ p.y # Zero /\ p.t = Zero
\* the outcome of a call that panics
Panicked == [panic |-> TRUE]
IsPanic(p) == "panic" \in DOMAIN p
\* ProjectiveCurve::into_affine; the inverse of z = 0 does not exist
\* (unwrap of None), which no point of the curve reaches
IntoAffineInv(p, z_inv) ==
  CASE Evaluated(z_inv) -> Affine(FqMul(p.x, z_inv), FqMul(p.y, z_inv))
IntoAffine(p) ==
  IF IsZero(p) THEN AffineZero
  ELSE IF p.z = One THEN Affine(p.x, p.y)
  ELSE IF p.z = Zero THEN Panicked
  ELSE IntoAffineInv(p, FqInverse(p.z))
\* Neg for GroupProjective
Neg(p) ==
  IF IsGeneric(p) THEN Generic(FrNeg(p.u), FrNeg(p.v))
  ELSE Projective(FqNeg(p.x), p.y, FqNeg(p.t), p.z)
\* the last step of both formulas: X3 = E*F, Y3 = G*H, T3 = E*H, Z3 = F*G
HwcdOut(E, F, G, H) ==
  CASE Evaluated(<<E, F, G, H>>) ->
    Projective(FqMul(E, F), FqMul(G, H), FqMul(E, H), FqMul(F, G))
\* AddAssign for GroupProjective (add-2008-hwcd): A = X1*X2, B = Y1*Y2,
\* C = d*T1*T2, D = Z1*Z2, m = (X1+Y1)*(X2+Y2); E = m-A-B, F = D-C, G = D+C,
\* H = B-a*A
AddSums(A, B, C, D, m) ==
  CASE Evaluated(<<A, B, C, D, m>>) ->
    HwcdOut(FqSub(FqSub(m, A), B), FqSub(D, C), FqAdd(D, C),
            FqSub(B, FqMul(COEFF_A, A)))
Add(p, q) ==
  IF IsGeneric(p) THEN Generic(FrAdd(p.u, q.u), FrAdd(p.v, q.v))
  ELSE AddSums(FqMul(p.x, q.x), FqMul(p.y, q.y),
               FqMul(COEFF_D, FqMul(p.t, q.t)), FqMul(p.z, q.z),
               FqMul(FqAdd(p.x, p.y), FqAdd(q.x, q.y)))
\* ProjectiveCurve::double (dbl-2008-hwcd): A = X1^2, B = Y1^2, C = 2*Z1^2,
\* D = a*A, m = (X1+Y1)^2; E = m-A-B, G = D+B, F = G-C, H = D-B
DoubleOut(E, G, C, H) == CASE Evaluated(G) -> HwcdOut(E, FqSub(G, C), G, H)
DoubleSums(A, B, C, D, m) ==
  CASE Evaluated(<<A, B, C, D, m>>) ->
    DoubleOut(FqSub(FqSub(m, A), B), FqAdd(D, B), C, FqSub(D, B))
DoubleSquares(A, B, ZZ, m) ==
  CASE Evaluated(<<A, ZZ>>) ->
    DoubleSums(A, B, FqAdd(ZZ, ZZ), FqMul(COEFF_A, A), m)
Double(p) ==
  IF IsGeneric(p) THEN Generic(FrAdd(p.u, p.u), FrAdd(p.v, p.v))
  ELSE DoubleSquares(FqSquare(p.x), FqSquare(p.y), FqSquare(p.z),
                     FqSquare(FqAdd(p.x, p.y)))
\* PartialEq for GroupProjective: the same group element
SamePoint(p, q) ==
  IF IsGeneric(p) THEN p = q
  ELSE IF IsZero(p) THEN IsZero(q)
  ELSE IF IsZero(q) THEN FALSE
  ELSE /\ FqMul(p.x, q.z) = FqMul(q.x, p.z)
       /\ FqMul(p.y, q.z) = FqMul(q.y, p.z)

\* ---------------------------------------------------------------------------
\* impl GLVParameters for EdwardsParameters
\* ---------------------------------------------------------------------------
COEFF_A1 ==
  Num(<<1, 6179, 9887, 5791, 6560, 8245, 7755, 8193, 0842, 1023,
        6647, 6457, 2929, 9773, 8920, 9373, 0683, 5049, 0665, 1604>>)
COEFF_A2 ==
  Num(<<3, 7446, 4638, 2764, 1770, 8163, 0724, 2315, 1800, 8505,
        2603, 6356, 1749, 0163, 5680, 0525, 6780, 8434, 0351, 4036>>)
COEFF_A3 ==
  Num(<<1, 4989, 4113, 4748, 4419, 6631, 4049, 8193, 0058, 8078,
        5086, 9168, 8303, 7474, 2545, 9840, 1919, 0951, 7767, 0477>>)
COEFF_B1 ==
  Num(<<3, 7446, 4638, 2764, 1770, 8163, 0724, 2315, 1800, 8505,
        2603, 6356, 1749, 0163, 5680, 0525, 6780, 8434, 0351, 4036>>)
COEFF_B2 ==
  Num(<<3, 6553, 2591, 5123, 9542, 2736, 7416, 1596, 5297, 6804,
        6449, 8907, 5731, 0263, 6662, 5599, 5151, 1544, 3213, 7034>>)
\* COEFF_B2 in the place of COEFF_B3
COEFF_B3Repeated == COEFF_B2
COEFF_B3 ==
  Num(<<1, 5882, 6160, 2388, 6648, 2057, 7357, 8911, 6561, 9779,
        1240, 6617, 4321, 7374, 1563, 4766, 3548, 7841, 4904, 7479>>)
COEFF_C1 ==
  Num(<<4, 2910, 3090, 8938, 2041, 1580, 3854, 5419, 3091, 4095,
        5400, 9398, 7217, 9826, 0514, 9261, 6687, 4776, 8299, 3077>>)
COEFF_C2 ==
  Num(<<9525, 5660, 8574, 4149, 3214, 0919, 5088, 8768, 2488, 2289,
        6126, 2834, 7811, 7711, 1104, 2012, 4608, 9819, 1436>>)

COEFF_N11 == Num(<<113, 4822, 3169, 1339, 2038, 6451, 1368, 2549, 5762, 3327>>)
COEFF_N12 == Num(<<10, 7413, 1938, 2058, 1388, 8773, 9339, 9598, 6662, 9956>>)
COEFF_N21 == Num(<<21, 4826, 3876, 4116, 2777, 7547, 8679, 9197, 3325, 9912>>)
\* the literal without its sign
COEFF_N22Unsigned ==
  Num(<<113, 4822, 3169, 1339, 2038, 6451, 1368, 2549, 5762, 3327>>)
COEFF_N22 ==
  FrNegLiteral(Num(<<113, 4822, 3169, 1339, 2038, 6451, 1368, 2549, 5762, 3327>>))

\* FrParameters::MODULUS_MINUS_ONE_DIV_TWO, (r - 1) / 2
MODULUS_MINUS_ONE_DIV_TWO == DivSmall(SubN(FR_MODULUS, One), 2)[1]

\* fn endomorphism(base) -> CurveAffine
endomorphism(base) ==
  LET x0 == base.x
      y0 == base.y
      z0 == y0
      fy == FqMul(FqMul(COEFF_A1, FqAdd(y0, COEFF_A2)), FqAdd(y0, COEFF_A3))
      gy == FqMul(FqMul(COEFF_B1, FqAdd(y0, COEFF_B2)), FqAdd(y0, COEFF_B3))
      hy == FqMul(FqAdd(y0, COEFF_C1), FqAdd(y0, COEFF_C2))
      x == FqMul(FqMul(x0, fy), hy)
      y == FqMul(gy, z0)
      z == FqMul(hy, z0)
  IN CASE Evaluated(<<fy, gy, hy, x, y, z>>) ->
       IntoAffine(Projective(x, y, One, z))

\* the remainder, where the quotient is meant
BigUintRem(n) == DivMod(n, FR_MODULUS, FR_MU)[2]
\* `beta_1 / r`, `beta_2 / r`: the BigUint quotient by the modulus r
BigUintDiv(n) == DivMod(n, FR_MODULUS, FR_MU)[1]

\* fn scalar_decomposition(scalar) -> (k1, k2); a BigUint division by zero
\* panics
scalar_decomposition(scalar) ==
  LET scalar_z == scalar
      n11 == COEFF_N11
      n12 == COEFF_N12
      r == FR_MODULUS
      beta_1 == FrFrom(BigUintDiv(MulN(scalar_z, n11)))
      beta_2 == FrFrom(BigUintDiv(MulN(scalar_z, n12)))
      b1 == FrAdd(FrMul(beta_1, COEFF_N11), FrMul(beta_2, COEFF_N21))
      b2 == FrAdd(FrMul(beta_1, COEFF_N12), FrMul(beta_2, COEFF_N22))
      k1 == FrSub(scalar, b1)
      k2 == FrNeg(b2)
  IN IF r = Zero THEN Panicked
     ELSE CASE Evaluated(<<beta_1, beta_2, b1, b2>>) -> [k1 |-> k1, k2 |-> k2]

\* ---------------------------------------------------------------------------
\* The state: the top-level call and its arguments, the locals of glv_mul,
\* multi_scalar_mul and get_bits, and the reference double-and-add the
\* results are compared with.
\* ---------------------------------------------------------------------------
VARIABLES
  op,            \* the function called: "glv_mul", "multi_scalar_mul", ...
  pc,            \* the position in it
  base,          \* base of glv_mul, endomorphism and multi_scalar_mul
  scalar,        \* scalar of glv_mul and scalar_decomposition
  psi_base,      \* glv_mul: endomorphism(base); endomorphism: its result
  k1, k2,        \* glv_mul, scalar_decomposition: the decomposition
  scalar_1, endor_base, scalar_2,   \* the other arguments of multi_scalar_mul
  b1, s1, b2, s2, b1b2,             \* multi_scalar_mul
  s1_bits, s2_bits, s1_len, len, i, res,
  gb_a, gb_res, gb_k, gb_for,       \* get_bits: a, res, the iterator, the caller
  result,        \* the value returned to the top-level caller
  ref_jobs, ref_bits, ref_i, ref_acc, ref_out   \* the reference multiplications

callVars == <<op, base, scalar>>
argVars == <<scalar_1, endor_base, scalar_2>>
glvVars == <<psi_base, k1, k2>>
msmVars == <<b1, s1, b2, s2, b1b2, s1_bits, s2_bits, s1_len, len, i, res>>
gbVars == <<gb_a, gb_res, gb_k, gb_for>>
refVars == <<ref_jobs, ref_bits, ref_i, ref_acc, ref_out>>
vars == <<pc, callVars, argVars, glvVars, msmVars, gbVars, result, refVars>>

\* the value of a local that is not yet assigned
None == <<>>

\* no local is assigned before the call
LocalsUnassigned ==
  /\ psi_base = None /\ k1 = None /\ k2 = None
  /\ b1 = None /\ s1 = None /\ b2 = None /\ s2 = None /\ b1b2 = None
  /\ s1_bits = None /\ s2_bits = None /\ s1_len = 0 /\ len = 0 /\ i = 0
  /\ res = None
  /\ gb_res = 0 /\ gb_k = 0
  /\ result = None
  /\ ref_bits = None /\ ref_i = 0 /\ ref_acc = None /\ ref_out = <<>>

\* ---------------------------------------------------------------------------
\* get_bits (lines 227-238), an iteration of `for e in a.iter().rev()` a step
\* ---------------------------------------------------------------------------
GetBitsStartShort == BitWidth - 1
\* `let mut res = 256;`
GetBitsStart == 256

GetBitsEnter ==
  /\ pc = "get_bits"
  /\ gb_res' = GetBitsStart
  /\ gb_k' = Len(gb_a)
  /\ pc' = "get_bits_for"
  /\ UNCHANGED <<callVars, argVars, glvVars, msmVars, gb_a, gb_for, result,
                 refVars>>

\* `if !e { res -= 1 }`: res is a u16, and 0 - 1 panics where overflow is
\* checked and wraps where it is not
GetBitsStep ==
  /\ pc = "get_bits_for"
  /\ gb_k >= 1 /\ ~gb_a[gb_k]
  /\ IF gb_res = 0
     THEN /\ pc' \in {"panic", "get_bits_for"}
          /\ gb_res' = IF pc' = "panic" THEN gb_res ELSE 2^16 - 1
          /\ gb_k' = IF pc' = "panic" THEN gb_k ELSE gb_k - 1
     ELSE gb_res' = gb_res - 1 /\ gb_k' = gb_k - 1 /\ UNCHANGED pc
  /\ UNCHANGED <<callVars, argVars, glvVars, msmVars, gb_a, gb_for, result,
                 refVars>>

\* get_bits returns res: `return res` at a set bit, or res after the loop
GetBitsReturns ==
  pc = "get_bits_for" /\ (IF gb_k = 0 THEN TRUE ELSE gb_a[gb_k])

\* the return to a top-level caller
GetBitsReturn ==
  /\ GetBitsReturns /\ gb_for = "caller"
  /\ result' = gb_res
  /\ pc' = "returned"
  /\ UNCHANGED <<callVars, argVars, glvVars, msmVars, gbVars, refVars>>

\* ---------------------------------------------------------------------------
\* multi_scalar_mul (lines 178-225)
\* ---------------------------------------------------------------------------
\* BigInteger256::to_bits_le yields BitWidth bits; r_over_2 (lines 189-190)
r_over_2 == MODULUS_MINUS_ONE_DIV_TWO

NegatesNever(s) == FALSE
\* `if s1 > r_over_2`, `if s2 > r_over_2`
Negates(s) == FrGreater(s, r_over_2)

\* the bodies of the two ifs of lines 192-199, for one scalar and its point
NormalizedScalar(s) == IF Negates(s) THEN FrNeg(s) ELSE s
NormalizedPointKept(s, b) == b
NormalizedPoint(s, b) == IF Negates(s) THEN Neg(b) ELSE b

EffectiveLenMin(l1, l2) == Min2(l1, l2)
\* `max(s1_len, s2_len) as usize`
EffectiveLen(l1, l2) == Max2(l1, l2)

LoopIndexOff(n, j) == n - j
\* the index `len - i - 1` of the bit read in iteration i
LoopIndex(n, j) == n - j - 1

AddsB1Always(x, y) == x
\* the conditions of lines 214, 217 and 220 on the bits of s1 and s2
AddsB1(x, y) == x /\ ~y
AddsB2Always(x, y) == y
AddsB2(x, y) == ~x /\ y
AddsB1B2(x, y) == x /\ y

\* lines 184-187
MsmEnter ==
  /\ pc = "multi_scalar_mul"
  /\ b1' = IntoProjective(base)
  /\ s1' = scalar_1
  /\ b2' = IntoProjective(endor_base)
  /\ s2' = scalar_2
  /\ pc' = "normalize"
  /\ UNCHANGED <<callVars, argVars, glvVars, b1b2, s1_bits, s2_bits, s1_len,
                 len, i, res, gbVars, result, refVars>>

\* lines 192-199: each scalar above r_over_2 is negated with its point
MsmNormalize ==
  /\ pc = "normalize"
  /\ b1' = NormalizedPoint(s1, b1)
  /\ s1' = NormalizedScalar(s1)
  /\ b2' = NormalizedPoint(s2, b2)
  /\ s2' = NormalizedScalar(s2)
  /\ pc' = "bits"
  /\ UNCHANGED <<callVars, argVars, glvVars, b1b2, s1_bits, s2_bits, s1_len,
                 len, i, res, gbVars, result, refVars>>

\* lines 200-207: b1b2, the bits of s1 and s2, and the call get_bits(&s1_bits)
MsmBits ==
  /\ pc = "bits"
  /\ b1b2' = Add(b1, b2)
  /\ s1_bits' = ToBitsLE(s1)
  /\ s2_bits' = ToBitsLE(s2)
  /\ gb_a' = s1_bits'
  /\ gb_for' = "s1_len"
  /\ pc' = "get_bits"
  /\ UNCHANGED <<callVars, argVars, glvVars, b1, s1, b2, s2, s1_len, len, i,
                 res, gb_res, gb_k, result, refVars>>

\* line 207 returns, line 208 calls get_bits(&s2_bits)
MsmS1Len ==
  /\ GetBitsReturns /\ gb_for = "s1_len"
  /\ s1_len' = gb_res
  /\ gb_a' = s2_bits
  /\ gb_for' = "s2_len"
  /\ pc' = "get_bits"
  /\ UNCHANGED <<callVars, argVars, glvVars, b1, s1, b2, s2, b1b2, s1_bits,
                 s2_bits, len, i, res, gb_res, gb_k, result, refVars>>

\* line 208 returns; lines 209-212: len, res = zero, the loop starts at i = 0
MsmS2Len ==
  /\ GetBitsReturns /\ gb_for = "s2_len"
  /\ len' = EffectiveLen(s1_len, gb_res)
  /\ res' = ProjectiveZero(b1)
  /\ i' = 0
  /\ pc' = "loop"
  /\ UNCHANGED <<callVars, argVars, glvVars, b1, s1, b2, s2, b1b2, s1_bits,
                 s2_bits, s1_len, gbVars, result, refVars>>

\* the bit of a bit vector at a 0-based index inside it
InRange(bits, n) == n >= 0 /\ n < Len(bits)
Bit(bits, n) == bits[n + 1]

\* the body of the loop (lines 213-222) for the bits x of s1 and y of s2
LoopBody(acc, x, y) ==
  LET doubled == Double(acc)
      r1 == IF AddsB1(x, y) THEN Add(doubled, b1) ELSE doubled
      r2 == IF AddsB2(x, y) THEN Add(r1, b2) ELSE r1
  IN IF AddsB1B2(x, y) THEN Add(r2, b1b2) ELSE r2

\* one iteration of `for i in 0..len`; an index outside the bits panics
MsmLoop ==
  /\ pc = "loop"
  /\ i < len
  /\ LET n == LoopIndex(len, i)
     IN IF InRange(s1_bits, n) /\ InRange(s2_bits, n)
        THEN /\ res' = LoopBody(res, Bit(s1_bits, n), Bit(s2_bits, n))
             /\ i' = i + 1
             /\ UNCHANGED pc
        ELSE pc' = "panic" /\ UNCHANGED <<res, i>>
  /\ UNCHANGED <<callVars, argVars, glvVars, b1, s1, b2, s2, b1b2, s1_bits,
                 s2_bits, s1_len, len, gbVars, result, refVars>>

\* line 224
MsmReturn ==
  /\ pc = "loop"
  /\ i >= len
  /\ result' = res
  /\ pc' = "returned"
  /\ UNCHANGED <<callVars, argVars, glvVars, msmVars, gbVars, refVars>>

\* ---------------------------------------------------------------------------
\* glv_mul (lines 165-172) and the top-level calls of endomorphism and
\* scalar_decomposition
\* ---------------------------------------------------------------------------
\* lines 169-171, up to the call of multi_scalar_mul
GlvMul ==
  /\ pc = "glv_mul"
  /\ LET psi == endomorphism(base)
         k == scalar_decomposition(scalar)
     IN IF IsPanic(psi) \/ IsPanic(k)
        THEN /\ pc' = "panic"
             /\ UNCHANGED <<argVars, glvVars>>
        ELSE /\ psi_base' = psi
             /\ k1' = k.k1
             /\ k2' = k.k2
             /\ scalar_1' = k.k1
             /\ endor_base' = psi
             /\ scalar_2' = k.k2
             /\ pc' = "multi_scalar_mul"
  /\ UNCHANGED <<callVars, msmVars, gbVars, result, refVars>>

\* the call endomorphism(base)
CallEndomorphism ==
  /\ pc = "endomorphism"
  /\ LET psi == endomorphism(base)
     IN IF IsPanic(psi)
        THEN pc' = "panic" /\ UNCHANGED psi_base
        ELSE psi_base' = psi /\ pc' = "endomorphism_twice"
  /\ UNCHANGED <<callVars, argVars, k1, k2, msmVars, gbVars, result, refVars>>

\* the call endomorphism(endomorphism(base))
CallEndomorphismTwice ==
  /\ pc = "endomorphism_twice"
  /\ LET psi == endomorphism(psi_base)
     IN IF IsPanic(psi)
        THEN pc' = "panic" /\ UNCHANGED result
        ELSE result' = psi /\ pc' = "returned"
  /\ UNCHANGED <<callVars, argVars, glvVars, msmVars, gbVars, refVars>>

\* the call scalar_decomposition(scalar)
Decompose ==
  /\ pc = "scalar_decomposition"
  /\ LET k == scalar_decomposition(scalar)
     IN IF IsPanic(k)
        THEN pc' = "panic" /\ UNCHANGED <<k1, k2>>
        ELSE k1' = k.k1 /\ k2' = k.k2 /\ pc' = "returned"
  /\ UNCHANGED <<callVars, argVars, psi_base, msmVars, gbVars, result,
                 refVars>>

\* ---------------------------------------------------------------------------
\* The reference: the scalar multiple k*P by double-and-add over all the bits
\* of k, from the highest set bit down, one bit a step.  ref_jobs holds the
\* pairs <<k, P>> to compute once the call has returned.
\* ---------------------------------------------------------------------------
RECURSIVE HighestSet(_, _, _)
\* the highest 1-based index in lo..hi of a set bit, 0 if none
HighestSet(bits, lo, hi) ==
  IF lo > hi THEN 0
  ELSE IF lo = hi THEN (IF bits[lo] THEN lo ELSE 0)
  ELSE LET mid == (lo + hi) \div 2
           h == HighestSet(bits, mid + 1, hi)
       IN IF h > 0 THEN h ELSE HighestSet(bits, lo, mid)
BitLength(n) == LET bits == ToBitsLE(n) IN HighestSet(bits, 1, Len(bits))

RefStart ==
  /\ pc = "returned"
  /\ ref_jobs # <<>>
  /\ ref_bits' = ToBitsLE(ref_jobs[1][1])
  /\ ref_i' = HighestSet(ref_bits', 1, Len(ref_bits'))
  /\ ref_acc' = ProjectiveZero(ref_jobs[1][2])
  /\ pc' = "reference"
  /\ UNCHANGED <<callVars, argVars, glvVars, msmVars, gbVars, result,
                 ref_jobs, ref_out>>

RefStep ==
  /\ pc = "reference"
  /\ ref_i >= 1
  /\ ref_acc' = LET doubled == Double(ref_acc)
                IN IF ref_bits[ref_i]
                   THEN Add(doubled, IntoProjective(ref_jobs[1][2]))
                   ELSE doubled
  /\ ref_i' = ref_i - 1
  /\ UNCHANGED <<pc, callVars, argVars, glvVars, msmVars, gbVars, result,
                 ref_jobs, ref_bits, ref_out>>

RefDone ==
  /\ pc = "reference"
  /\ ref_i = 0
  /\ ref_out' = Append(ref_out, ref_acc)
  /\ ref_jobs' = Tail(ref_jobs)
  /\ pc' = IF Len(ref_jobs) = 1 THEN "checked" ELSE "returned"
  /\ UNCHANGED <<callVars, argVars, glvVars, msmVars, gbVars, result,
                 ref_bits, ref_i, ref_acc>>

\* ---------------------------------------------------------------------------
\* The calls explored: sample scalars, points and bit vectors
\* ---------------------------------------------------------------------------
\* the eigenvalue lambda of the endomorphism on the prime-order subgroup
Lambda ==
  Num(<<8913, 6596, 5810, 9529, 9283, 8253, 0854, 4844, 0085, 4125,
        3147, 5250, 4019, 7377, 3654, 3920, 0084, 5839, 5397>>)
\* lambda^2 mod r
LambdaSquared == FrMul(Lambda, Lambda)

\* a small natural number as a scalar
Small(n) ==
  IF n = 0 THEN Zero
  ELSE IF n < BASE THEN <<n>> ELSE <<n % BASE, n \div BASE>>
SEED ==
  Num(<<3141, 5926, 5358, 9793, 2384, 6264, 3383, 2795, 0288, 4197,
        1693, 9937, 5105, 8209, 7494, 4592, 3078, 1640, 6286>>)
\* scalars spread over [0, r)
Spread(j) == FrMul(Small(j), SEED)
RECURSIVE ShiftRightBits(_, _)
\* floor(n / 2^k)
ShiftRightBits(n, k) ==
  IF k = 0 \/ Len(n) = 0 THEN n
  ELSE IF k >= 13 THEN ShiftRightBits(DivSmall(n, 2^13)[1], k - 13)
  ELSE DivSmall(n, 2^k)[1]

\* the scalars of [0, r) explored: the boundaries, then spread ones
ScalarAt(j) ==
  IF j = 0 THEN Zero
  ELSE IF j = 1 THEN SubN(FR_MODULUS, One)
  ELSE IF j = 2 THEN One
  ELSE IF j = 4 THEN AddN(MODULUS_MINUS_ONE_DIV_TWO, One)
  ELSE IF j = 5 THEN MODULUS_MINUS_ONE_DIV_TWO
  ELSE Spread(j)

\* points of the prime-order subgroup: the generator and multiples of it
SamplePoints ==
  <<GENERATOR,
    [x |-> Num(<<2, 1829, 7432, 6119, 4590, 1949, 9241, 3705, 8675, 7609,
               7158, 3230, 5918, 2896, 8087, 8296, 6767, 0246, 0124, 2412>>),
     y |-> Num(<<1, 9075, 8705, 6776, 2384, 3613, 4371, 8229, 9204, 6104,
               5746, 9724, 5026, 2741, 9161, 7173, 9040, 4246, 0553, 1019>>)],
    [x |-> Num(<<8830, 9082, 9799, 2734, 5601, 5903, 5582, 8333, 9796, 6295,
               7724, 0542, 8631, 6245, 2376, 3442, 6029, 0169, 5418>>),
     y |-> Num(<<1, 3097, 1835, 7805, 7500, 4014, 4341, 5578, 4195, 9777,
               0077, 7141, 5851, 3489, 7242, 7271, 0710, 8135, 8218, 4050>>)],
    [x |-> Num(<<5035, 0340, 9766, 9723, 9539, 7957, 1617, 9569, 3365, 8484,
               9944, 6515, 8427, 1088, 2465, 7137, 8205, 6742, 6081>>),
     y |-> Num(<<3, 5472, 5812, 6674, 8007, 1345, 0868, 6317, 7229, 5874,
               2961, 8092, 4853, 4515, 2894, 2152, 5469, 3820, 1468, 1656>>)]>>
PointAt(j) == SamplePoints[(j % Len(SamplePoints)) + 1]

\* the pairs of scalars of multi_scalar_mul explored
PairAt(j) ==
  IF j = 0 THEN <<One, Zero>>
  ELSE IF j = 1 THEN <<Zero, One>>
  ELSE IF j = 2 THEN <<Zero, Zero>>
  ELSE IF j = 3 THEN <<MODULUS_MINUS_ONE_DIV_TWO,
                       AddN(MODULUS_MINUS_ONE_DIV_TWO, One)>>
  ELSE IF j = 4 THEN <<SubN(FR_MODULUS, One), Spread(j)>>
  ELSE IF j % 2 = 1 THEN <<ShiftRightBits(Spread(2 * j), 11 * j),
                           Spread(2 * j + 1)>>
  ELSE <<Spread(2 * j), Spread(2 * j + 1)>>

\* little-endian bit vectors of the full width: none set, only the most
\* significant, only the least significant, then a highest set bit at a
\* varying place over a pattern
BitSample(j) ==
  IF j = 0 THEN [n \in 1..BitWidth |-> FALSE]
  ELSE IF j = 1 THEN [n \in 1..BitWidth |-> n = BitWidth]
  ELSE IF j = 2 THEN [n \in 1..BitWidth |-> n = 1]
  ELSE LET top == ((j * 53) % BitWidth) + 1
       IN [n \in 1..BitWidth |-> n = top \/ (n < top /\ (n * j) % 3 = 0)]

NumGlvCases == 4
NumPairs == 12
NumEndoPoints == 3
NumScalars == 60
NumBitSamples == 8

NoArguments == scalar_1 = None /\ endor_base = None /\ scalar_2 = None
NoGetBits == gb_a = None /\ gb_for = "none"

\* ---------------------------------------------------------------------------
\* glv_mul(base, scalar), then the reference scalar * base
\* ---------------------------------------------------------------------------
Init ==
  \E c \in 0..(NumGlvCases - 1) :
    /\ op = "glv_mul" /\ pc = "glv_mul"
    /\ base = PointAt(c) /\ scalar = ScalarAt(c)
    /\ NoArguments /\ NoGetBits /\ LocalsUnassigned
    /\ ref_jobs = <<<<scalar, base>>>>

Next ==
  \/ GlvMul
  \/ MsmEnter \/ MsmNormalize \/ MsmBits \/ MsmS1Len \/ MsmS2Len
  \/ MsmLoop \/ MsmReturn
  \/ GetBitsEnter \/ GetBitsStep
  \/ RefStart \/ RefStep \/ RefDone

Spec == Init /\ [][Next]_vars

\* ---------------------------------------------------------------------------
\* multi_scalar_mul(P, k1, Q, k2) for two generic points P and Q
\* ---------------------------------------------------------------------------
InitMsm ==
  \E c \in 0..(NumPairs - 1) :
    /\ op = "multi_scalar_mul" /\ pc = "multi_scalar_mul"
    /\ base = GenericP /\ scalar = None
    /\ scalar_1 = PairAt(c)[1] /\ endor_base = GenericQ
    /\ scalar_2 = PairAt(c)[2]
    /\ NoGetBits /\ LocalsUnassigned
    /\ ref_jobs = <<>>

NextMsm ==
  \/ MsmEnter \/ MsmNormalize \/ MsmBits \/ MsmS1Len \/ MsmS2Len
  \/ MsmLoop \/ MsmReturn
  \/ GetBitsEnter \/ GetBitsStep

SpecMsm == InitMsm /\ [][NextMsm]_vars

\* ---------------------------------------------------------------------------
\* endomorphism(base) and endomorphism(endomorphism(base)), then the
\* references lambda * base and (lambda^2 mod r) * base
\* ---------------------------------------------------------------------------
EndoPointAt(j) == IF j = 1 THEN AffineZero ELSE PointAt(j)

InitEndo ==
  \E c \in 0..(NumEndoPoints - 1) :
    /\ op = "endomorphism" /\ pc = "endomorphism"
    /\ base = EndoPointAt(c) /\ scalar = None
    /\ NoArguments /\ NoGetBits /\ LocalsUnassigned
    /\ ref_jobs = <<<<Lambda, base>>, <<LambdaSquared, base>>>>

NextEndo ==
  \/ CallEndomorphism \/ CallEndomorphismTwice
  \/ RefStart \/ RefStep \/ RefDone

SpecEndo == InitEndo /\ [][NextEndo]_vars

\* ---------------------------------------------------------------------------
\* scalar_decomposition(scalar)
\* ---------------------------------------------------------------------------
InitDecomp ==
  \E c \in 0..(NumScalars - 1) :
    /\ op = "scalar_decomposition" /\ pc = "scalar_decomposition"
    /\ base = None /\ scalar = ScalarAt(c)
    /\ NoArguments /\ NoGetBits /\ LocalsUnassigned
    /\ ref_jobs = <<>>

NextDecomp == Decompose

SpecDecomp == InitDecomp /\ [][NextDecomp]_vars

\* ---------------------------------------------------------------------------
\* get_bits(a)
\* ---------------------------------------------------------------------------
InitBits ==
  \E c \in 0..(NumBitSamples - 1) :
    /\ op = "get_bits" /\ pc = "get_bits"
    /\ base = None /\ scalar = None
    /\ NoArguments /\ LocalsUnassigned
    /\ gb_a = BitSample(c) /\ gb_for = "caller"
    /\ ref_jobs = <<>>

NextBits == GetBitsEnter \/ GetBitsStep \/ GetBitsReturn

SpecBits == InitBits /\ [][NextBits]_vars

\* ---------------------------------------------------------------------------
\* multi_scalar_mul and scalar_decomposition over all their sample inputs
\* ---------------------------------------------------------------------------
InitTotal == InitMsm \/ InitDecomp

NextTotal == NextMsm \/ NextDecomp

SpecTotal == InitTotal /\ [][NextTotal]_vars

\* ---------------------------------------------------------------------------
\* The properties
\* ---------------------------------------------------------------------------
\* bitlength(r) and ceil(bitlength(r) / 2)
ModulusBits == BitLength(FR_MODULUS)
HalfBits == (ModulusBits + 1) \div 2
\* the scalar multiple k * (u*P + v*Q) of a generic point
GenericMul(k, p) == Generic(FrMul(k, p.u), FrMul(k, p.v))
\* the number of trailing (most significant) FALSE entries of a bit vector
TrailingFalse(bits) ==
  Cardinality({n \in 1..Len(bits) : \A m \in n..Len(bits) : ~bits[m]})

\* C1: glv_mul(P, k) is the group element the reference double-and-add of
\* k*P yields, for the points P of the prime-order subgroup and the scalars k
\* of [0, r); for k = 0 it is the identity and for k = r - 1 it is -P.
C1_GlvMulIsScalarMul ==
  /\ pc # "panic"
  /\ (op = "glv_mul" /\ pc = "checked") =>
       /\ SamePoint(result, ref_out[1])
       /\ (scalar = Zero => IsZero(result))
       /\ (scalar = SubN(FR_MODULUS, One)
             => SamePoint(result, Neg(IntoProjective(base))))

C1_Witness ==
  /\ op = "glv_mul" /\ pc = "checked"
  /\ scalar = SubN(FR_MODULUS, One)
  /\ len > 0 /\ i = len
  /\ SamePoint(result, ref_out[1])
  /\ SamePoint(result, Neg(IntoProjective(base)))

\* both rows of the lattice matrix N satisfy n_i1 + lambda * n_i2 = 0 (mod r)
LatticeRows ==
  /\ FrAdd(COEFF_N11, FrMul(Lambda, COEFF_N12)) = Zero
  /\ FrAdd(COEFF_N21, FrMul(Lambda, COEFF_N22)) = Zero

\* C2: the rows of the lattice matrix satisfy n_i1 + lambda * n_i2 = 0 (mod r)
\* and the pair (k1, k2) scalar_decomposition(k) returns satisfies
\* k1 + lambda * k2 = k (mod r), for the scalars k of [0, r).
C2_DecompositionRecombines ==
  (op = "scalar_decomposition" /\ pc = "returned") =>
    /\ LatticeRows
    /\ FrAdd(k1, FrMul(Lambda, k2)) = scalar

C2_Witness ==
  /\ op = "scalar_decomposition" /\ pc = "returned"
  /\ scalar = SubN(FR_MODULUS, One)
  /\ k1 # Zero /\ k2 # Zero
  /\ FrAdd(k1, FrMul(Lambda, k2)) = scalar

\* C3, as stated: the field elements k1 and k2 scalar_decomposition(k)
\* returns, before any sign normalization, both have a bit length of at most
\* ceil(bitlength(r) / 2) plus a small margin (8 bits here).
C3_ReturnedElementsAreShort ==
  (op = "scalar_decomposition" /\ pc = "returned") =>
    /\ BitLength(k1) <= HalfBits + 8
    /\ BitLength(k2) <= HalfBits + 8

\* C3, amended: k1 has a bit length of at most ceil(bitlength(r) / 2), and so
\* has k2 once it is sign-normalized (r - k2 in place of a k2 above
\* (r - 1) / 2); k2 itself stands for a negative number wherever it is above
\* (r - 1) / 2, and is then as long as r.
C3_NormalizedElementsAreShort ==
  (op = "scalar_decomposition" /\ pc = "returned") =>
    /\ BitLength(k1) <= HalfBits
    /\ BitLength(NormalizedScalar(k2)) <= HalfBits
    /\ (Negates(k2) => BitLength(k2) >= ModulusBits - 1)

C3_Witness ==
  /\ op = "scalar_decomposition" /\ pc = "returned"
  /\ scalar = SubN(FR_MODULUS, One)
  /\ Negates(k2)
  /\ BitLength(k2) = ModulusBits
  /\ BitLength(NormalizedScalar(k2)) <= HalfBits

\* C4: multi_scalar_mul(P, k1, Q, k2) returns k1*P + k2*Q, for generic points
\* P and Q and the scalars of [0, r), those above (r - 1) / 2 included; for
\* (1, 0) it is P, for (0, 1) it is Q and for (0, 0) the identity.
C4_MsmIsLinearCombination ==
  (op = "multi_scalar_mul" /\ pc = "returned") =>
    /\ SamePoint(result, Add(GenericMul(scalar_1, base),
                             GenericMul(scalar_2, endor_base)))
    /\ (scalar_1 = One /\ scalar_2 = Zero => SamePoint(result, base))
    /\ (scalar_1 = Zero /\ scalar_2 = One => SamePoint(result, endor_base))
    /\ (scalar_1 = Zero /\ scalar_2 = Zero => IsZero(result))

C4_Witness ==
  /\ op = "multi_scalar_mul" /\ pc = "returned"
  /\ Negates(scalar_1) /\ ~Negates(scalar_2) /\ scalar_2 # Zero
  /\ len > 0 /\ i = len
  /\ result = Generic(scalar_1, scalar_2)

\* C5: endomorphism(P) is a point of the curve and is lambda*P, and
\* endomorphism(endomorphism(P)) is a point of the curve and is
\* (lambda^2 mod r)*P, for the points P of the prime-order subgroup.
C5_EndomorphismIsLambda ==
  /\ pc # "panic"
  /\ (op = "endomorphism" /\ pc = "endomorphism_twice") => IsOnCurve(psi_base)
  /\ (op = "endomorphism" /\ pc = "returned") => IsOnCurve(result)
  /\ (op = "endomorphism" /\ pc = "checked") =>
       /\ SamePoint(IntoProjective(psi_base), ref_out[1])
       /\ SamePoint(IntoProjective(result), ref_out[2])

C5_Witness ==
  /\ op = "endomorphism" /\ pc = "checked"
  /\ base = GENERATOR
  /\ psi_base # base /\ result # base /\ result # psi_base
  /\ IsOnCurve(psi_base)
  /\ SamePoint(IntoProjective(psi_base), ref_out[1])
  /\ SamePoint(IntoProjective(result), ref_out[2])

\* C6: inside glv_mul the joint loop runs len = max(bitlength(s1),
\* bitlength(s2)) iterations, a doubling each, where s1 and s2 are the
\* sign-normalized scalars of the decomposition, and len is at most
\* ceil(bitlength(r) / 2), never the bit length of r.
C6_GlvLoopIsHalfLength ==
  (op = "glv_mul" /\ pc \in {"loop", "returned", "reference", "checked"}) =>
    /\ len = Max2(BitLength(s1), BitLength(s2))
    /\ len <= HalfBits
    /\ len < ModulusBits
    /\ i <= len

C6_Witness ==
  /\ op = "glv_mul" /\ pc = "returned"
  /\ Negates(k2)
  /\ BitLength(k2) = ModulusBits
  /\ len = HalfBits /\ i = len

\* the pair (sn, bn) is the sign normalization of the pair (s, b)
IsNormalizationOf(sn, bn, s, b) ==
  /\ ~FrGreater(sn, MODULUS_MINUS_ONE_DIV_TWO)
  /\ \/ sn = s /\ bn = b
     \/ sn = FrNeg(s) /\ bn = Neg(b) /\ sn # s
  /\ SamePoint(GenericMul(sn, bn), GenericMul(s, b))

\* C7: once multi_scalar_mul has normalized the signs, which it does before
\* the loop, each scalar the loop uses is at most (r - 1) / 2, each pair
\* (scalar, point) is the pair passed or has both its scalar and its point
\* negated, whatever the other pair is, and the product scalar*point is the
\* one of the pair passed; the loop changes none of them.
C7_SignNormalization ==
  (op = "multi_scalar_mul"
     /\ pc \in {"bits", "get_bits", "get_bits_for", "loop", "returned"}) =>
    /\ IsNormalizationOf(s1, b1, scalar_1, IntoProjective(base))
    /\ IsNormalizationOf(s2, b2, scalar_2, IntoProjective(endor_base))

C7_Witness ==
  /\ op = "multi_scalar_mul" /\ pc = "loop" /\ i > 0
  /\ Negates(scalar_1) /\ s1 = FrNeg(scalar_1) /\ b1 = Neg(GenericP)
  /\ ~Negates(scalar_2) /\ s2 = scalar_2 /\ b2 = GenericQ /\ s2 # Zero

\* the number of additions an iteration performs for the bits x of s1, y of s2
Additions(x, y) ==
  (IF AddsB1(x, y) THEN 1 ELSE 0) + (IF AddsB2(x, y) THEN 1 ELSE 0)
    + (IF AddsB1B2(x, y) THEN 1 ELSE 0)
\* an iteration of the loop reads the bits at len - 1 - i, doubles, and adds
\* nothing (00), b1 (10), b2 (01) or b1b2 (11), in one addition at most
IterationStep ==
  (pc = "loop" /\ i < len) =>
    LET x == Bit(s1_bits, len - 1 - i)
        y == Bit(s2_bits, len - 1 - i)
    IN /\ pc' = "loop" /\ i' = i + 1
       /\ Additions(x, y) = IF x \/ y THEN 1 ELSE 0
       /\ res' = IF x /\ y THEN Add(Double(res), b1b2)
                 ELSE IF x THEN Add(Double(res), b1)
                 ELSE IF y THEN Add(Double(res), b2)
                 ELSE Double(res)
\* after i iterations res is floor(s1 / 2^(len - i))*b1
\* + floor(s2 / 2^(len - i))*b2
AccumulatorIsPrefix ==
  (op = "multi_scalar_mul" /\ pc = "loop") =>
    /\ len = Max2(BitLength(s1), BitLength(s2))
    /\ i <= len
    /\ SamePoint(res, Add(GenericMul(ShiftRightBits(s1, len - i), b1),
                          GenericMul(ShiftRightBits(s2, len - i), b2)))
    /\ (s1 = Zero /\ s2 = Zero => len = 0 /\ IsZero(res))

\* C8: the joint loop runs len = max(bitlength(s1), bitlength(s2))
\* iterations over the bit positions len - 1 down to 0; an iteration doubles
\* the accumulator once and then adds nothing (bits 00), b1 (10), b2 (01) or
\* b1 + b2 (11), never twice; after i iterations the accumulator is
\* floor(s1 / 2^(len - i))*b1 + floor(s2 / 2^(len - i))*b2; with both scalars
\* zero, len is 0, no iteration runs and the result is the identity.
C8_JointLoop ==
  /\ []AccumulatorIsPrefix
  /\ [][IterationStep]_vars
  /\ []((op = "multi_scalar_mul" /\ pc = "returned"
           /\ scalar_1 = Zero /\ scalar_2 = Zero)
          => (len = 0 /\ i = 0 /\ IsZero(result)))

C8_Witness ==
  /\ op = "multi_scalar_mul" /\ pc = "loop"
  /\ len > HalfBits /\ i = len - 1
  /\ s1_bits[1] /\ s2_bits[1]
  /\ SamePoint(res, Add(GenericMul(ShiftRightBits(s1, 1), b1),
                        GenericMul(ShiftRightBits(s2, 1), b2)))

\* C9: get_bits of a little-endian bit vector of the full width returns the
\* place of the highest set bit plus one, which is the width less the number
\* of trailing FALSE entries: 0 if no bit is set, the width if the most
\* significant bit is.
C9_GetBitsIsBitLength ==
  (op = "get_bits" /\ pc = "returned") =>
    /\ Len(gb_a) = BitWidth
    /\ result = HighestSet(gb_a, 1, Len(gb_a))
    /\ result = BitWidth - TrailingFalse(gb_a)
    /\ ((\A n \in 1..Len(gb_a) : ~gb_a[n]) => result = 0)
    /\ (gb_a[Len(gb_a)] => result = BitWidth)

C9_Witness ==
  /\ op = "get_bits" /\ pc = "returned"
  /\ result > 1 /\ result < BitWidth
  /\ gb_a[result] /\ gb_a[1]
  /\ \A n \in (result + 1)..Len(gb_a) : ~gb_a[n]

\* C10: multi_scalar_mul and scalar_decomposition reach no panic: len is at
\* most the width of the bit vectors, each index len - i - 1 the loop reads
\* is in [0, len - 1] and inside the vectors, the counter of get_bits does
\* not go below 0, and the modulus scalar_decomposition divides by is not 0.
C10_NoPanic ==
  /\ pc # "panic"
  /\ FR_MODULUS # Zero
  /\ (pc = "loop" => len <= BitWidth /\ len <= Len(s1_bits)
                       /\ len <= Len(s2_bits))
  /\ (pc = "loop" /\ i < len =>
        /\ LoopIndex(len, i) >= 0 /\ LoopIndex(len, i) <= len - 1
        /\ InRange(s1_bits, LoopIndex(len, i))
        /\ InRange(s2_bits, LoopIndex(len, i)))
  /\ (pc = "get_bits_for" =>
        /\ gb_res >= 0
        /\ (gb_k >= 1 => gb_res >= 1))
  /\ (op = "scalar_decomposition" =>
        pc \in {"scalar_decomposition", "returned"})

C10_Witness ==
  /\ op = "multi_scalar_mul" /\ pc = "returned"
  /\ len > HalfBits /\ i = len
  /\ Negates(scalar_1) /\ Negates(scalar_2)
=============================================================================
